---- MODULE Spec2Model ----
(***************************************************************************)
(* Model of src/index.js: an Express application with signup, login,       *)
(* logout, a members page and an admin panel that promotes and demotes     *)
(* users.  The user collection and the session collection live in MongoDB. *)
(*                                                                         *)
(* Strings that the code inspects character by character (name, email,     *)
(* password) are spelled out as sequences of one-character strings, so     *)
(* that the Joi rules are computed and not assumed.                        *)
(***************************************************************************)
EXTENDS Integers, Sequences, FiniteSets, Bags, TLC

VARIABLES
    users,      \* the User collection, in insertion order
    session,    \* session store: client cookie -> req.session.user
    pending,    \* bag of signup requests suspended at `await newUser.save()`
    destroyed,  \* history: cookie -> its session was destroyed by a logout
                \*          and no signup or login has been saved on it since
    leaving,    \* cookies whose logout waits for the store's destroy callback
                \* (used only where the logout handler is cut at the callback)
    last        \* the step just taken: request and response

vars == <<users, session, pending, destroyed, leaving, last>>

----------------------------------------------------------------------------
(* Bounds of the model *)

\* number of signup requests that may be suspended at the save at once
MaxPending == 2

\* the browsers (session cookies) talking to the server: every handler reads
\* and writes only the session of the cookie that came with the request
Clients == {"c1", "c2"}

----------------------------------------------------------------------------
(* Character data *)

Letters == {"a", "b", "c", "e", "i", "l", "m", "n", "o", "r", "s", "t", "w", "x", "g"}
Digits  == {"0", "1", "2"}
Alnum   == Letters \cup Digits

\* The strings of the requests.  A string is kept as an atom in the state;
\* Spell gives its characters, which is what the validation rules look at.
alice1    == "alice1"
shortName == "a"
badName   == "al!1"
root      == "root"

aEmail      == "a@x.com"
rootEmail   == "r@x.com"
nobodyEmail == "n@x.com"
badEmail    == "ax.com"

secret    == "secret"
wrong     == "wrong"
shortPw   == "abc"
longPw    == "xxxxxxxxxxxxxxxxxxxxxxxxxxxxxxxxxxxxxxxxxxxxxxxxxxx"

\* a form field that is absent or empty is falsy in the handlers
missing == ""

Spell(s) ==
    CASE s = alice1      -> <<"a", "l", "i", "c", "e", "1">>
      [] s = shortName   -> <<"a">>
      [] s = badName     -> <<"a", "l", "!", "1">>
      [] s = root        -> <<"r", "o", "o", "t">>
      [] s = aEmail      -> <<"a", "@", "x", ".", "c", "o", "m">>
      [] s = rootEmail   -> <<"r", "@", "x", ".", "c", "o", "m">>
      [] s = nobodyEmail -> <<"n", "@", "x", ".", "c", "o", "m">>
      [] s = badEmail    -> <<"a", "x", ".", "c", "o", "m">>
      [] s = secret      -> <<"s", "e", "c", "r", "e", "t">>
      [] s = wrong       -> <<"w", "r", "o", "n", "g">>
      [] s = shortPw     -> <<"a", "b", "c">>
      [] s = longPw      -> [i \in 1..51 |-> "x"]
      [] s = missing     -> <<>>

Undefined == "undefined"

----------------------------------------------------------------------------
(* Responses *)

NoError == "null"

Render(view, error) ==
    [status |-> 200, view |-> view, to |-> "", error |-> error]

Redirect(to) ==
    [status |-> 302, view |-> "", to |-> to, error |-> ""]

\* res.status(403).send('Not authorized')
Forbidden ==
    [status |-> 403, view |-> "", to |-> "", error |-> "Not authorized"]

\* res.status(404).render('404')
NotFoundPage ==
    [status |-> 404, view |-> "404", to |-> "", error |-> ""]

\* the handler is suspended at an await: nothing has been sent yet
Suspended ==
    [status |-> 0, view |-> "", to |-> "", error |-> "suspended"]

\* the awaited promise rejected inside the async handler: nothing catches it,
\* no response is ever sent for the request
Rejected ==
    [status |-> 0, view |-> "", to |-> "", error |-> "unhandled rejection"]

\* not a request: the session store dropped a session whose ttl ran out
NoRequest ==
    [status |-> 0, view |-> "", to |-> "", error |-> ""]

----------------------------------------------------------------------------
(* Joi validation, lines 72-78 and 106-111 *)

MinNameLen == 2
MaxNameLen == 30
MinPasswordLen == 5
MaxPasswordLen == 50
BcryptRounds == 10

\* every string a request of the model carries
Strings ==
    {alice1, shortName, badName, root, aEmail, rootEmail, nobodyEmail,
     badEmail, secret, wrong, shortPw, longPw, missing}

IsAlphanum(str) ==
    LET s == Spell(str) IN \A i \in 1..Len(s) : s[i] \in Alnum

\* Joi.string().email(): one "@", a non-empty local part, a domain of at
\* least two non-empty dot-separated segments
IsEmail(str) ==
    LET s    == Spell(str)
        ats  == {i \in 1..Len(s) : s[i] = "@"}
    IN  /\ Cardinality(ats) = 1
        /\ LET k    == CHOOSE i \in ats : TRUE
               dots == {i \in (k + 1)..Len(s) : s[i] = "."}
           IN  /\ k > 1
               /\ \A i \in 1..(k - 1) : s[i] \in Alnum \cup {"."}
               /\ s[1] # "." /\ s[k - 1] # "."
               /\ dots # {}
               /\ (k + 1) \notin dots
               /\ Len(s) \notin dots
               /\ \A i \in dots : (i + 1) \notin dots
               /\ \A i \in ((k + 1)..Len(s)) \ dots : s[i] \in Alnum \cup {"-"}

\* the rules, evaluated once for every string of the model
AlphanumStrings == {s \in Strings : IsAlphanum(s)}
EmailStrings    == {s \in Strings : IsEmail(s)}
Length          == [s \in Strings |-> Len(Spell(s))]

NameError(name) ==
    IF name \notin AlphanumStrings
    THEN "\"name\" must only contain alpha-numeric characters"
    ELSE IF Length[name] < MinNameLen
    THEN "\"name\" length must be at least 2 characters long"
    ELSE IF Length[name] > MaxNameLen
    THEN "\"name\" length must be less than or equal to 30 characters long"
    ELSE NoError

EmailError(email) ==
    IF email \notin EmailStrings THEN "\"email\" must be a valid email" ELSE NoError

PasswordError(password) ==
    IF Length[password] < MinPasswordLen
    THEN "\"password\" length must be at least 5 characters long"
    ELSE IF Length[password] > MaxPasswordLen
    THEN "\"password\" length must be less than or equal to 50 characters long"
    ELSE NoError


\* a bug: only the name is validated
SignupValidateNameOnly(name, email, password) == NameError(name)

\* schema.validate({ name, email, password }): the first failing key decides
SignupValidate(name, email, password) ==
    IF NameError(name) # NoError THEN NameError(name)
    ELSE IF EmailError(email) # NoError THEN EmailError(email)
    ELSE PasswordError(password)

\* schema.validate({ email, password })
LoginValidate(email, password) ==
    IF EmailError(email) # NoError THEN EmailError(email)
    ELSE PasswordError(password)

----------------------------------------------------------------------------
(* bcrypt *)

\* bcrypt.hash(password, 10): one-way, the stored value is not the password
Hash(password) ==
    [alg |-> "bcrypt", rounds |-> BcryptRounds, digest |-> password]


\* a bug: the result of the comparison is taken the wrong way round
CompareInverted(password, hash) ==
    hash.alg = "bcrypt" /\ hash.digest # password

\* bcrypt.compare(password, hash)
Compare(password, hash) ==
    hash.alg = "bcrypt" /\ hash.digest = password

----------------------------------------------------------------------------
(* The User collection, lines 27-33 *)

\* ObjectIds the store assigns, in insertion order
ObjectIds == <<"oid1", "oid2", "oid3">>

Range(f) == {f[i] : i \in DOMAIN f}

\* mongoose casts the filter value of _id to ObjectId; a string that is
\* no ObjectId makes the query reject with a CastError
IsObjectId(id) == id \in Range(ObjectIds)


\* a bug: the schema default of user_type is 'admin'
NewUserAdmin(us, name, email, hashedPassword) ==
    [id |-> ObjectIds[Len(us) + 1], name |-> name, email |-> email,
     password |-> hashedPassword, user_type |-> "admin"]

NewUser(us, name, email, hashedPassword) ==
    [id |-> ObjectIds[Len(us) + 1], name |-> name, email |-> email,
     password |-> hashedPassword, user_type |-> "user"]


\* a bug: the schema declares no unique index on email
DuplicateKeyNoIndex(us, email) == FALSE

\* the unique index on email: an insert of an email already stored fails
DuplicateKey(us, email) == \E i \in 1..Len(us) : us[i].email = email

\* User.findOne({ email }): index of the record, 0 when there is none
FindOne(us, email) ==
    IF \E i \in 1..Len(us) : us[i].email = email
    THEN CHOOSE i \in 1..Len(us) : us[i].email = email
    ELSE 0


\* a bug: the update replaces the document instead of setting one field
UpdateOneReplacing(us, id, role) ==
    [i \in 1..Len(us) |->
        IF us[i].id = id
        THEN [id |-> id, name |-> "", email |-> "", password |-> Hash(""),
              user_type |-> role]
        ELSE us[i]]

\* User.updateOne({ _id: id }, { user_type: role })
UpdateOne(us, id, role) ==
    [i \in 1..Len(us) |->
        IF us[i].id = id THEN [us[i] EXCEPT !.user_type = role] ELSE us[i]]

----------------------------------------------------------------------------
(* Sessions, lines 41-49 *)

\* req.session.user is undefined
NoUser ==
    [present |-> FALSE, id |-> Undefined, name |-> "", email |-> "",
     user_type |-> Undefined]


\* a bug (or another design): the snapshot taken at signup carries the
\* role of the new record
SignupSnapshotWithRole(name) ==
    [present |-> TRUE, id |-> Undefined, name |-> name, email |-> "",
     user_type |-> "user"]

\* req.session.user = { name }
SignupSnapshot(name) ==
    [present |-> TRUE, id |-> Undefined, name |-> name, email |-> "",
     user_type |-> Undefined]


\* a bug: the snapshot taken at login does not carry the stored role
LoginSnapshotNoRole(user) ==
    [present |-> TRUE, id |-> user.id, name |-> user.name,
     email |-> user.email, user_type |-> "user"]

\* req.session.user = { _id, name, email, user_type }
LoginSnapshot(user) ==
    [present |-> TRUE, id |-> user.id, name |-> user.name,
     email |-> user.email, user_type |-> user.user_type]




\* a bug: logout empties the whole session collection
DestroySessionAll(sess, c) == [x \in DOMAIN sess |-> NoUser]

\* a bug: logout redirects without destroying the session
DestroySessionKept(sess, c) == sess

\* req.session.destroy(): the store forgets the session of this cookie
DestroySession(sess, c) == [sess EXCEPT ![c] = NoUser]

----------------------------------------------------------------------------
(* Inputs *)

\* POST /signup bodies <<name, email, password>>: a valid one, and one for
\* each way a check fails
SignupBodies ==
    {<<alice1, aEmail, secret>>,
     <<missing, aEmail, secret>>, <<alice1, missing, secret>>,
     <<alice1, aEmail, missing>>,
     <<shortName, aEmail, secret>>, <<badName, aEmail, secret>>,
     <<alice1, badEmail, secret>>,
     <<alice1, aEmail, shortPw>>, <<alice1, aEmail, longPw>>}

\* POST /login bodies <<email, password>>
LoginBodies ==
    {<<rootEmail, secret>>, <<rootEmail, wrong>>,
     <<aEmail, secret>>, <<aEmail, wrong>>,
     <<nobodyEmail, secret>>, <<nobodyEmail, wrong>>,
     <<missing, secret>>, <<aEmail, missing>>,
     <<badEmail, secret>>, <<aEmail, shortPw>>}

IdParams        == Range(ObjectIds) \cup {"abc"}

\* the administrator account that exists in the database before the first
\* request, when there is one: no route creates an admin out of nothing
SeedAdmin ==
    [id |-> ObjectIds[1], name |-> root, email |-> rootEmail,
     password |-> Hash(secret), user_type |-> "admin"]

Step(op, c, resp, email, password, id) ==
    [op |-> op, client |-> c, resp |-> resp, email |-> email,
     password |-> password, id |-> id]

----------------------------------------------------------------------------
(* Pure parts of the handlers *)


\* a bug: an unknown email gets a message of its own
LoginResponseTelling(us, email, password) ==
    IF email = missing \/ password = missing
    THEN Render("login", "Please enter both email and password.")
    ELSE IF LoginValidate(email, password) # NoError
    THEN Render("login", LoginValidate(email, password))
    ELSE IF FindOne(us, email) = 0
    THEN Render("login", "User not found.")
    ELSE IF ~Compare(password, us[FindOne(us, email)].password)
    THEN Render("login", "User and password not found.")
    ELSE Redirect("/members")

\* lines 102-125 and 135: what POST /login answers
LoginResponse(us, email, password) ==
    IF email = missing \/ password = missing
    THEN Render("login", "Please enter both email and password.")
    ELSE IF LoginValidate(email, password) # NoError
    THEN Render("login", LoginValidate(email, password))
    ELSE IF FindOne(us, email) = 0
    THEN Render("login", "User and password not found.")
    ELSE IF ~Compare(password, us[FindOne(us, email)].password)
    THEN Render("login", "User and password not found.")
    ELSE Redirect("/members")


\* a bug: the role is checked before the presence of a session user
AdminGuardRoleFirst(su) ==
    IF su.user_type # "admin" THEN Forbidden
    ELSE IF ~su.present THEN Redirect("/login")
    ELSE Render("admin", NoError)

\* lines 141-148: the two checks of GET /admin; "pass" lets the request in
AdminGuard(su) ==
    IF ~su.present THEN Redirect("/login")
    ELSE IF su.user_type # "admin" THEN Forbidden
    ELSE Render("admin", NoError)



\* a bug (or another design): the role is read from the stored record of the
\* session user at every request
SetRoleGuardLive(su) ==
    IF ~su.present
       \/ ~\E i \in 1..Len(users) :
              users[i].id = su.id /\ users[i].user_type = "admin"
    THEN Forbidden
    ELSE Redirect("/admin")

\* a bug: the role of the session user is not checked
SetRoleGuardNoRole(su) ==
    IF ~su.present THEN Forbidden ELSE Redirect("/admin")

\* a bug: a request without a session user is let through
SetRoleGuardNoSession(su) ==
    IF su.present /\ su.user_type # "admin" THEN Forbidden
    ELSE Redirect("/admin")

\* lines 157-159 and 167-169: the single check of promote and demote
SetRoleGuard(su) ==
    IF ~su.present \/ su.user_type # "admin" THEN Forbidden
    ELSE Redirect("/admin")


\* a bug: the members page sends a visitor without a session to /login
MembersResponseLogin(su) ==
    IF ~su.present THEN Redirect("/login") ELSE Render("members", NoError)

\* lines 177-185
MembersResponse(su) ==
    IF ~su.present THEN Redirect("/") ELSE Render("members", NoError)

----------------------------------------------------------------------------
(* State machine *)

Init ==
    /\ users \in {<<>>, <<SeedAdmin>>}
    /\ session = [c \in Clients |-> NoUser]
    /\ pending = EmptyBag
    /\ destroyed = [c \in Clients |-> FALSE]
    /\ leaving = {}
    /\ last = Step("start", "c1", NoRequest, "", "", "")

\* GET /, lines 52-55
Home(c) ==
    /\ last' = Step("home", c, Render("home", NoError), "", "", "")
    /\ UNCHANGED <<users, session, pending, destroyed, leaving>>

\* GET /signup, lines 58-60
SignupForm(c) ==
    /\ last' = Step("signupForm", c, Render("signup", NoError), "", "", "")
    /\ UNCHANGED <<users, session, pending, destroyed, leaving>>

\* GET /login, lines 94-96
LoginForm(c) ==
    /\ last' = Step("loginForm", c, Render("login", NoError), "", "", "")
    /\ UNCHANGED <<users, session, pending, destroyed, leaving>>

\* POST /signup up to `await newUser.save()`, lines 63-87: a request that
\* fails a check is answered at once, a valid one is suspended at the save
Signup(c, name, email, password) ==
    IF name = missing \/ email = missing \/ password = missing
    THEN /\ last' = Step("signup", c,
                         Render("signup", "Please fill in all fields."),
                         "", "", "")
         /\ UNCHANGED <<users, session, pending, destroyed, leaving>>
    ELSE IF SignupValidate(name, email, password) # NoError
    THEN /\ last' = Step("signup", c,
                         Render("signup", SignupValidate(name, email, password)),
                         "", "", "")
         /\ UNCHANGED <<users, session, pending, destroyed, leaving>>
    ELSE /\ BagCardinality(pending) < MaxPending
         /\ pending' = pending (+)
                SetToBag({[client |-> c, name |-> name, email |-> email,
                           password |-> Hash(password)]})
         /\ last' = Step("signup", c, Suspended, "", "", "")
         /\ UNCHANGED <<users, session, destroyed, leaving>>

\* POST /signup from the save on, lines 87-90: the insert either hits the
\* unique index on email and rejects, or stores the record, after which the
\* handler sets the session user and redirects
SignupSave(r) ==
    /\ BagIn(r, pending)
    /\ pending' = pending (-) SetToBag({r})
    /\ UNCHANGED leaving
    /\ IF DuplicateKey(users, r.email)
       THEN /\ last' = Step("signupSave", r.client, Rejected, "", "", "")
            /\ UNCHANGED <<users, session, destroyed>>
       ELSE /\ users' = Append(users, NewUser(users, r.name, r.email, r.password))
            /\ session' = [session EXCEPT ![r.client] = SignupSnapshot(r.name)]
            /\ destroyed' = [destroyed EXCEPT ![r.client] = FALSE]
            /\ last' = Step("signupSave", r.client, Redirect("/members"),
                            "", "", "")

\* POST /login, lines 99-136
Login(c, email, password) ==
    LET resp == LoginResponse(users, email, password) IN
    /\ last' = Step("login", c, resp, email, password, "")
    /\ IF resp = Redirect("/members")
       THEN /\ session' = [session EXCEPT
                              ![c] = LoginSnapshot(users[FindOne(users, email)])]
            /\ destroyed' = [destroyed EXCEPT ![c] = FALSE]
       ELSE UNCHANGED <<session, destroyed>>
    /\ UNCHANGED <<users, pending, leaving>>

\* GET /admin, lines 139-153
Admin(c) ==
    /\ last' = Step("admin", c, AdminGuard(session[c]), "", "", "")
    /\ UNCHANGED <<users, session, pending, destroyed, leaving>>


\* a bug (or another design): a role change is pushed into the sessions of
\* the user it is about
SetRoleRefreshing(op, c, id, role) ==
    IF SetRoleGuard(session[c]) = Forbidden
    THEN /\ last' = Step(op, c, Forbidden, "", "", id)
         /\ UNCHANGED <<users, session, pending, destroyed, leaving>>
    ELSE IF ~IsObjectId(id)
    THEN /\ last' = Step(op, c, Rejected, "", "", id)
         /\ UNCHANGED <<users, session, pending, destroyed, leaving>>
    ELSE /\ users' = UpdateOne(users, id, role)
         /\ session' = [x \in Clients |->
                           IF session[x].present /\ session[x].id = id
                           THEN [session[x] EXCEPT !.user_type = role]
                           ELSE session[x]]
         /\ last' = Step(op, c, Redirect("/admin"), "", "", id)
         /\ UNCHANGED <<pending, destroyed, leaving>>

\* lines 156-173: the body shared by promote and demote
SetRole(op, c, id, role) ==
    IF SetRoleGuard(session[c]) = Forbidden
    THEN /\ last' = Step(op, c, Forbidden, "", "", id)
         /\ UNCHANGED <<users, session, pending, destroyed, leaving>>
    ELSE IF ~IsObjectId(id)
    THEN /\ last' = Step(op, c, Rejected, "", "", id)
         /\ UNCHANGED <<users, session, pending, destroyed, leaving>>
    ELSE /\ users' = UpdateOne(users, id, role)
         /\ last' = Step(op, c, Redirect("/admin"), "", "", id)
         /\ UNCHANGED <<session, pending, destroyed, leaving>>

\* GET /promote/:id, lines 156-163
Promote(c, id) == SetRole("promote", c, id, "admin")

\* GET /demote/:id, lines 166-173
Demote(c, id) == SetRole("demote", c, id, "user")

\* GET /members, lines 176-186
Members(c) ==
    /\ last' = Step("members", c, MembersResponse(session[c]), "", "", "")
    /\ UNCHANGED <<users, session, pending, destroyed, leaving>>

\* lines 190-195: what the destroy and its callback do; the store either
\* removes the session or reports an error, the callback redirects in both
\* cases
LogoutEffect(c, ok) ==
    /\ last' = Step(IF ok THEN "logout" ELSE "logoutFailed", c, Redirect("/"),
                    "", "", "")
    /\ IF ok
       THEN /\ session' = DestroySession(session, c)
            /\ destroyed' = [destroyed EXCEPT
                                ![c] = destroyed[c] \/ session[c].present]
       ELSE UNCHANGED <<session, destroyed>>
    /\ UNCHANGED <<users, pending>>

\* GET /logout, lines 189-196, run to its end
Logout(c, ok) ==
    /\ LogoutEffect(c, ok)
    /\ UNCHANGED leaving

\* GET /logout up to the call of req.session.destroy, line 190: the request
\* waits for the store
LogoutBegin(c) ==
    /\ c \notin leaving
    /\ leaving' = leaving \cup {c}
    /\ last' = Step("logoutBegin", c, Suspended, "", "", "")
    /\ UNCHANGED <<users, session, pending, destroyed>>


\* a bug: the callback returns after logging the error, without a response
LogoutCallbackSilent(c, ok) ==
    /\ c \in leaving
    /\ leaving' = leaving \ {c}
    /\ IF ok
       THEN LogoutEffect(c, ok)
       ELSE /\ last' = Step("logoutFailed", c, Rejected, "", "", "")
            /\ UNCHANGED <<users, session, pending, destroyed>>

\* the callback of req.session.destroy, lines 190-195
LogoutCallback(c, ok) ==
    /\ c \in leaving
    /\ leaving' = leaving \ {c}
    /\ LogoutEffect(c, ok)

\* the session store drops a session whose ttl (line 47) has run out
Expire(c) ==
    /\ session[c].present
    /\ session' = [session EXCEPT ![c] = NoUser]
    /\ last' = Step("expire", c, NoRequest, "", "", "")
    /\ UNCHANGED <<users, pending, destroyed, leaving>>

\* any other path, lines 199-201
NotFound(c) ==
    /\ last' = Step("notFound", c, NotFoundPage, "", "", "")
    /\ UNCHANGED <<users, session, pending, destroyed, leaving>>

Next ==
    \/ \E c \in Clients : Home(c)
    \/ \E c \in Clients : SignupForm(c)
    \/ \E c \in Clients : LoginForm(c)
    \/ \E c \in Clients, b \in SignupBodies : Signup(c, b[1], b[2], b[3])
    \/ \E r \in BagToSet(pending) : SignupSave(r)
    \/ \E c \in Clients, b \in LoginBodies : Login(c, b[1], b[2])
    \/ \E c \in Clients : Admin(c)
    \/ \E c \in Clients, id \in IdParams : Promote(c, id)
    \/ \E c \in Clients, id \in IdParams : Demote(c, id)
    \/ \E c \in Clients : Members(c)
    \/ \E c \in Clients, ok \in BOOLEAN : Logout(c, ok)
    \/ \E c \in Clients : Expire(c)
    \/ \E c \in Clients : NotFound(c)

Spec == Init /\ [][Next]_vars

\* The logout handler cut at the store's callback, among logins, members
\* requests and expiries.  The session store calls the callback of destroy
\* back, with or without an error: weak fairness on the callback.
NextLogout ==
    \/ \E c \in Clients, b \in LoginBodies : Login(c, b[1], b[2])
    \/ \E c \in Clients : LogoutBegin(c)
    \/ \E c \in Clients, ok \in BOOLEAN : LogoutCallback(c, ok)
    \/ \E c \in Clients : Members(c)
    \/ \E c \in Clients : Expire(c)

LogoutSpec ==
    /\ Init
    /\ [][NextLogout]_vars
    /\ \A c \in Clients : WF_vars(\E ok \in BOOLEAN : LogoutCallback(c, ok))

----------------------------------------------------------------------------
(* Properties *)

AdminRoutes   == {"admin", "promote", "demote"}
SetRoleRoutes == {"promote", "demote"}

IsAdminSession(su) == su.present /\ su.user_type = "admin"
IsNonAdminSession(su) == su.present /\ su.user_type # "admin"

Stored(id) == \E i \in 1..Len(users) : users[i].id = id

\* the stored hash is the hash of this password
HashOf(hash, password) == hash.digest = password

\* the records created by POST /signup: all but the seeded administrator
SignedUp == {i \in 1..Len(users) : users[i].email # rootEmail}

\* C1: a request to /admin, /promote/:id or /demote/:id whose session holds a
\* user whose role is not 'admin' (a snapshot without a role included) is
\* answered with 403 and changes no stored role.
NonAdminIsForbidden ==
    [][(last'.op \in AdminRoutes /\ IsNonAdminSession(session[last'.client]))
        => (last'.resp = Forbidden /\ users' = users)]_vars

\* a session created by signup (no role in it) asked to promote a stored user
\* and was refused
NonAdminIsForbiddenWitness ==
    /\ last.op = "promote"
    /\ last.resp = Forbidden
    /\ session[last.client].present
    /\ session[last.client].user_type = Undefined
    /\ Stored(last.id)

\* C2: every step that changes a stored role is a promote or demote request
\* of a session whose snapshot has role 'admin'.
OnlyAdminChangesRoles ==
    [][(\E i \in 1..Len(users) : users'[i].user_type # users[i].user_type)
        => (last'.op \in SetRoleRoutes /\ IsAdminSession(session[last'.client]))]_vars

\* the seeded administrator has been demoted
OnlyAdminChangesRolesWitness ==
    /\ last.op = "demote"
    /\ last.resp = Redirect("/admin")
    /\ \E i \in 1..Len(users) :
          /\ users[i].email = rootEmail
          /\ users[i].id = last.id
          /\ users[i].user_type = "user"

\* C3, as claimed: a login with the email and password of a successful signup
\* succeeds and its session has role 'user', whatever happened in between.
LoginAfterSignupHasRoleUser ==
    (/\ last.op = "login"
     /\ \E i \in SignedUp : /\ users[i].email = last.email
                            /\ HashOf(users[i].password, last.password))
    => (/\ last.resp = Redirect("/members")
        /\ session[last.client].user_type = "user")

\* C3, amended: such a login succeeds and its session has the role stored for
\* the user at the time of the login.
LoginAfterSignupHasStoredRole ==
    \A i \in SignedUp :
        (/\ last.op = "login"
         /\ users[i].email = last.email
         /\ HashOf(users[i].password, last.password))
        => (/\ last.resp = Redirect("/members")
            /\ session[last.client].present
            /\ session[last.client].id = users[i].id
            /\ session[last.client].user_type = users[i].user_type)

\* a login of a signed-up user who has not been promoted
LoginAfterSignupWitness ==
    /\ last.op = "login"
    /\ last.resp = Redirect("/members")
    /\ \E i \in SignedUp : /\ users[i].email = last.email
                           /\ session[last.client].id = users[i].id
    /\ session[last.client].user_type = "user"

\* C4: no two stored records have the same email, however signups interleave.
EmailsAreUnique ==
    \A i, j \in 1..Len(users) : users[i].email = users[j].email => i = j

\* two signups with one email were suspended at the save together; one has
\* stored its record and the other is still to save
EmailsAreUniqueWitness ==
    /\ last.op = "signupSave"
    /\ last.resp = Redirect("/members")
    /\ \E r \in BagToSet(pending) : DuplicateKey(users, r.email)

\* C5: a well-formed login with a stored email and a wrong password gets the
\* same response as one with an email nobody has, in every store state.
WellFormedLogin(b) ==
    b[1] # missing /\ b[2] # missing /\ LoginValidate(b[1], b[2]) = NoError

LoginFailuresAreAlike ==
    \A b1, b2 \in LoginBodies :
        (/\ WellFormedLogin(b1) /\ WellFormedLogin(b2)
         /\ FindOne(users, b1[1]) # 0
         /\ ~HashOf(users[FindOne(users, b1[1])].password, b1[2])
         /\ FindOne(users, b2[1]) = 0)
        => (/\ LoginResponse(users, b1[1], b1[2])
                 = LoginResponse(users, b2[1], b2[2])
            /\ LoginResponse(users, b1[1], b1[2])
                 = Render("login", "User and password not found."))

\* a login with a stored email and a wrong password was refused while some
\* other email of the model is not stored
LoginFailuresAreAlikeWitness ==
    /\ last.op = "login"
    /\ FindOne(users, last.email) # 0
    /\ last.password = wrong
    /\ last.resp = Render("login", "User and password not found.")
    /\ FindOne(users, nobodyEmail) = 0

\* C6: once a logout has destroyed a session, GET /members with that cookie
\* is redirected to '/' until a signup or login succeeds on it.
LoggedOutIsRedirected ==
    (last.op = "members" /\ destroyed[last.client])
        => last.resp = Redirect("/")

LoggedOutIsRedirectedWitness ==
    /\ last.op = "members"
    /\ destroyed[last.client]
    /\ last.resp = Redirect("/")

\* C7: a promotion sets the stored role of its target to 'admin' and leaves
\* every session snapshot as it is; a session whose role is not 'admin' gets
\* role 'admin' only by a login on it, and a login takes the stored role.
PromotionLeavesSessionsStale ==
    [][/\ (last'.op = "promote" /\ last'.resp = Redirect("/admin"))
          => /\ session' = session
             /\ \A i \in 1..Len(users) :
                   users[i].id = last'.id => users'[i].user_type = "admin"
       /\ \A c \in Clients :
             (IsNonAdminSession(session[c]) /\ IsAdminSession(session'[c]))
                => (last'.op = "login" /\ last'.client = c)
       /\ (last'.op = "login" /\ last'.resp = Redirect("/members"))
          => session'[last'.client].user_type
                = users[FindOne(users, last'.email)].user_type]_vars

\* a user was promoted while logged in: the store says 'admin', the session
\* of that user still says 'user'
PromotionLeavesSessionsStaleWitness ==
    /\ last.op = "promote"
    /\ last.resp = Redirect("/admin")
    /\ \E i \in 1..Len(users), c \in Clients :
          /\ users[i].id = last.id
          /\ users[i].user_type = "admin"
          /\ session[c].present
          /\ session[c].id = users[i].id
          /\ session[c].user_type = "user"

\* C8, as claimed: GET /members without a session user redirects to '/login'.
MembersRedirectsToLogin ==
    (last.op = "members" /\ ~session[last.client].present)
        => last.resp = Redirect("/login")

\* C8, amended: GET /members without a session user redirects to '/'.
MembersRedirectsToHome ==
    (last.op = "members" /\ ~session[last.client].present)
        => last.resp = Redirect("/")

MembersRedirectsToHomeWitness ==
    /\ last.op = "members"
    /\ ~session[last.client].present
    /\ ~destroyed[last.client]
    /\ last.resp = Redirect("/")

\* C9, as claimed: on every admin route a request without a session user is
\* answered with a redirect, and 403 is sent only to a session user whose role
\* is not 'admin'.
PresenceBeforeRoleEverywhere ==
    last.op \in AdminRoutes
        => /\ ~session[last.client].present => last.resp.status = 302
           /\ last.resp = Forbidden => IsNonAdminSession(session[last.client])

\* C9, amended: that order holds on GET /admin, which redirects a request
\* without a session user to '/login'; promote and demote make one check and
\* answer a request without a session user with 403.
PresenceBeforeRoleOnAdminPage ==
    /\ last.op = "admin"
        => /\ ~session[last.client].present => last.resp = Redirect("/login")
           /\ last.resp = Forbidden => IsNonAdminSession(session[last.client])
    /\ (last.op \in SetRoleRoutes /\ ~session[last.client].present)
        => last.resp = Forbidden

PresenceBeforeRoleWitness ==
    /\ last.op = "admin"
    /\ ~session[last.client].present
    /\ last.resp = Redirect("/login")

\* C10: a promote or demote of an admin session whose :id matches no stored
\* user changes nothing in the store and is answered with a redirect to
\* /admin; when :id matches, only that user's role changes, to the role asked.
SetRoleAlwaysRedirects ==
    [][(last'.op \in SetRoleRoutes /\ IsAdminSession(session[last'.client]))
        => /\ last'.resp = Redirect("/admin")
           /\ Len(users') = Len(users)
           /\ \A i \in 1..Len(users) :
                 users'[i] =
                    IF users[i].id = last'.id
                    THEN [users[i] EXCEPT !.user_type =
                            IF last'.op = "promote" THEN "admin" ELSE "user"]
                    ELSE users[i]]_vars

\* C11, as claimed: no step changes the role carried by a session that holds
\* a user before and after the step.
SessionRoleIsFixed ==
    [][\A c \in Clients :
          (session[c].present /\ session'[c].present)
             => session'[c].user_type = session[c].user_type]_vars

\* C11, amended: the role carried by a session that holds a user is changed
\* only by a successful login or signup on that session, which replaces the
\* snapshot; every other request leaves it as it is.
SessionRoleChangesOnlyByLoginOrSignup ==
    [][\A c \in Clients :
          (/\ session[c].present /\ session'[c].present
           /\ session'[c].user_type # session[c].user_type)
             => /\ last'.client = c
                /\ last'.op \in {"login", "signupSave"}
                /\ last'.resp = Redirect("/members")]_vars

\* an admin was demoted in the store while logged in: the session still
\* carries role 'admin'
SessionRoleWitness ==
    /\ last.op = "demote"
    /\ last.resp = Redirect("/admin")
    /\ \E i \in 1..Len(users), c \in Clients :
          /\ users[i].id = last.id
          /\ users[i].user_type = "user"
          /\ session[c].present
          /\ session[c].id = users[i].id
          /\ session[c].user_type = "admin"

\* C12: a logout request that is waiting for the store is eventually answered
\* with a redirect to '/', whether the destroy succeeded or failed.
LogoutIsAnswered ==
    \A c \in Clients :
        (c \in leaving)
            ~> (/\ last.client = c
                /\ last.op \in {"logout", "logoutFailed"}
                /\ last.resp = Redirect("/"))

\* the destroy failed, the session is still there and the request was
\* answered with the redirect
LogoutIsAnsweredWitness ==
    /\ last.op = "logoutFailed"
    /\ last.resp = Redirect("/")
    /\ session[last.client].present
    /\ last.client \notin leaving

\* C13: what an admin route answers is decided by the session snapshot and
\* not by the stored role: the request is refused exactly when the snapshot
\* says so, and a session whose snapshot says 'admin' promotes whom it names,
\* whatever the store says about the requester.
AdminRoutesTrustSnapshot ==
    [][last'.op \in AdminRoutes
        => /\ (last'.resp = Forbidden)
                <=> \/ IsNonAdminSession(session[last'.client])
                    \/ (~session[last'.client].present
                        /\ last'.op \in SetRoleRoutes)
           /\ (last'.op = "admin" /\ IsAdminSession(session[last'.client]))
                => last'.resp = Render("admin", NoError)
           /\ (last'.op = "promote" /\ IsAdminSession(session[last'.client]))
                => \A i \in 1..Len(users) :
                      users[i].id = last'.id => users'[i].user_type = "admin"]_vars

\* an admin who is demoted in the store has just promoted another user with
\* the session created before the demotion
AdminRoutesTrustSnapshotWitness ==
    /\ last.op = "promote"
    /\ last.resp = Redirect("/admin")
    /\ IsAdminSession(session[last.client])
    /\ session[last.client].id # last.id
    /\ \E i, j \in 1..Len(users) :
          /\ users[i].id = session[last.client].id
          /\ users[i].user_type = "user"
          /\ users[j].id = last.id
          /\ users[j].user_type = "admin"

\* C14: a session gets a user only by a successful signup or login on it,
\* and loses its user only by a logout on it or by the expiry of its ttl.
SessionStateMachine ==
    [][\A c \in Clients :
          /\ (~session[c].present /\ session'[c].present)
                => /\ last'.client = c
                   /\ last'.op \in {"login", "signupSave"}
                   /\ last'.resp = Redirect("/members")
          /\ (session[c].present /\ ~session'[c].present)
                => /\ last'.client = c
                   /\ last'.op \in {"logout", "expire"}]_vars

\* one cookie has just lost its user by expiry while the other, logged out
\* before, is anonymous
SessionStateMachineWitness ==
    /\ last.op = "expire"
    /\ ~session[last.client].present
    /\ \E c \in Clients \ {last.client} : destroyed[c] /\ ~session[c].present

\* C15: a signup or login request that fails leaves the user collection and
\* every session as they were; a signup whose name, email or password breaks
\* a rule never reaches the save.
FailedRequest(step) ==
    \/ step.op = "signup" /\ step.resp.status = 200
    \/ step.op = "signupSave" /\ step.resp = Rejected
    \/ step.op = "login" /\ step.resp # Redirect("/members")

FailuresChangeNothing ==
    [][/\ FailedRequest(last') => (users' = users /\ session' = session)
       /\ \A r \in BagToSet(pending') :
             /\ r.name \in AlphanumStrings
             /\ Length[r.name] >= MinNameLen /\ Length[r.name] <= MaxNameLen
             /\ r.email \in EmailStrings
             /\ Length[r.password.digest] >= MinPasswordLen
             /\ Length[r.password.digest] <= MaxPasswordLen]_vars

\* a login with a wrong password on a cookie that holds a user: refused, and
\* the user is still there
FailuresChangeNothingWitness ==
    /\ last.op = "login"
    /\ last.password = wrong
    /\ last.resp = Render("login", "User and password not found.")
    /\ session[last.client].present
    /\ session[last.client].email # last.email

\* C16: a successful signup stores exactly one new record, with role 'user',
\* and sets the session user to a snapshot that holds the name alone; a
\* session with such a snapshot is refused on every admin route, whatever
\* the stored role of the user who signed up.
SignupSessionHasNoRole ==
    [][/\ (last'.op = "signupSave" /\ last'.resp = Redirect("/members"))
          => /\ Len(users') = Len(users) + 1
             /\ SubSeq(users', 1, Len(users)) = users
             /\ users'[Len(users')].user_type = "user"
             /\ session'[last'.client] =
                   [present |-> TRUE, id |-> Undefined,
                    name |-> users'[Len(users')].name, email |-> "",
                    user_type |-> Undefined]
       /\ (/\ last'.op \in AdminRoutes
           /\ session[last'.client].present
           /\ session[last'.client].user_type = Undefined)
          => last'.resp = Forbidden]_vars

\* the user who signed up has been promoted in the store and is refused on
\* /admin with the session of the signup
SignupSessionHasNoRoleWitness ==
    /\ last.op = "admin"
    /\ last.resp = Forbidden
    /\ session[last.client].present
    /\ session[last.client].user_type = Undefined
    /\ \E i \in SignedUp :
          /\ users[i].name = session[last.client].name
          /\ users[i].user_type = "admin"

\* C17: when no stored user and no session has role 'admin' at the start,
\* none ever has.
NoAdmin ==
    /\ \A i \in 1..Len(users) : users[i].user_type # "admin"
    /\ \A c \in Clients : session[c].user_type # "admin"

NoAdminWithoutAdmin == NoAdmin => []NoAdmin

\* the store started empty; a user who signed up and logged in asked to be
\* promoted and was refused
NoAdminWithoutAdminWitness ==
    /\ NoAdmin
    /\ last.op = "promote"
    /\ last.resp = Forbidden
    /\ session[last.client].present
    /\ \E i \in 1..Len(users) :
          /\ users[i].id = last.id
          /\ users[i].id = session[last.client].id

\* C18: no step removes a record or changes its identifier, name, email or
\* password hash, and a role is always 'user' or 'admin'.
RecordsAreKept ==
    [][/\ Len(users') >= Len(users)
       /\ \A i \in 1..Len(users) :
             /\ users'[i].id = users[i].id
             /\ users'[i].name = users[i].name
             /\ users'[i].email = users[i].email
             /\ users'[i].password = users[i].password
       /\ \A i \in 1..Len(users') : users'[i].user_type \in {"user", "admin"}]_vars

\* a signed-up user after a promotion: same name, email and password hash
RecordsAreKeptWitness ==
    /\ last.op = "promote"
    /\ last.resp = Redirect("/admin")
    /\ \E i \in SignedUp :
          /\ users[i].id = last.id
          /\ users[i].name = alice1
          /\ users[i].email = aEmail
          /\ HashOf(users[i].password, secret)
          /\ users[i].user_type = "admin"
    /\ \A c \in Clients : ~IsNonAdminSession(session[c])

====
